---- MODULE Spec2Model ----
(***************************************************************************)
(* rst2a: the image localizer of src/rst2a/images.py (specification Spec), *)
(* the LaTeX and PDF conversions of src/rst2a/latex.py, src/rst2a/pdf.py   *)
(* and ReSTDocument (SpecConv), the helpers of src/rst2a/common.py         *)
(* (SpecCommon), pdf.call_pdflatex_repeat called on its own (SpecRepeat),  *)
(* and the standalone module src/rst2pdf.py (SpecStandalone).              *)
(*                                                                         *)
(* A document tree is the sequence of its image/figure nodes in traversal  *)
(* order; each node carries one attribute, uri.  A uri or a path is a      *)
(* record [scheme, dir, name, ext]: urlparse(u)[0] is u.scheme and         *)
(* splitext(u)[1] is u.ext; a path has scheme "" and a relative path has   *)
(* dir "" (it is resolved against the working directory).                  *)
(*                                                                         *)
(* Python resolves a free name of a function when the line that uses it    *)
(* runs.  images.py uses os, getcwdu and chdir and common.py uses urlparse *)
(* without importing them (the single-file predecessor src/rst2a.py does   *)
(* import getcwdu, chdir and urlparse).  stdlib_bound tells whether the    *)
(* host has bound these standard-library names in the modules' namespaces: *)
(* FALSE is the package as shipped (the line raises NameError), TRUE is    *)
(* the package with the names bound to their standard-library objects.     *)
(* The same holds of copy in latex.py, getcwdu in pdf.py and join and     *)
(* remove in common.py.  Names that are no library names                   *)
(* (temp_local_filename, stylesheet_path, the local img_ext read before    *)
(* its assignment) are unbound in both.                                    *)
(***************************************************************************)
EXTENDS Integers, Sequences, FiniteSets, TLC

VARIABLES
    uri,               \* doctree: node index -> attributes['uri']
    files,             \* filesystem: the existing regular files (absolute paths)
    dirs,              \* filesystem: the existing directories
    cwd,               \* process working directory
    temp_dir,          \* ImageLocalizer.temp_dir
    localized_images,  \* ImageLocalizer.localized_images (dict)
    local_mode,        \* ImageLocalizer.__local_mode
    ndirs,             \* number of directories mkdtemp has made (fresh names)
    stdlib_bound,      \* see above
    last,              \* the last call made on the localizer, with its outcome
    ext_since,         \* history: a file was removed from outside since the last call
    cycle_done,        \* history: a localize/cleanup cycle completed and removed the workspace
    conv,              \* ReSTDocument: its settings objects and the last conversion made
    image_files        \* rst2pdf.py: the list held by the class ImageLocalizer

vars == <<uri, files, dirs, cwd, temp_dir, localized_images, local_mode, ndirs,
          stdlib_bound, last, ext_since, cycle_done, conv, image_files>>

----------------------------------------------------------------------------
(* Bounds *)

MaxNodes == 2      \* image/figure nodes in the tree
MaxDirs == 2       \* directories mkdtemp may create
MaxTemps == 1      \* files mkstemp may create

----------------------------------------------------------------------------
(* Values *)

A_PNG == [scheme |-> "http", dir |-> "example.org", name |-> "a", ext |-> ".png"]
B_GIF == [scheme |-> "ftp", dir |-> "example.org", name |-> "b", ext |-> ".gif"]
C_BMP == [scheme |-> "http", dir |-> "example.org", name |-> "c", ext |-> ".bmp"]
NOT_A_URL == [scheme |-> "", dir |-> "", name |-> "not-a-url", ext |-> ""]
PIC == [scheme |-> "", dir |-> "/home", name |-> "pic", ext |-> ".png"]
LOGO == [scheme |-> "", dir |-> "", name |-> "logo", ext |-> ".png"]

None == [scheme |-> "", dir |-> "", name |-> "None", ext |-> ""]

\* the bound method self.localize_image, as a value stored in the dict
BoundMethod ==
    [scheme |-> "<bound method>", dir |-> "", name |-> "ImageLocalizer.localize_image", ext |-> ""]

HomeDir == "/home"

NodeUris == {A_PNG, B_GIF, NOT_A_URL, PIC, LOGO}

FetchUrls == {A_PNG, C_BMP}

DirNames == <<"/tmp/img_1", "/tmp/img_2", "/tmp/img_3", "/tmp/img_4", "/tmp/img_5", "/tmp/img_6">>

\* the file name a caller passes in local_filename
FileName == "x1"

VALID_NETLOCS == {"ftp", "http", "https", "shttp", "sftp"}

ImageExtensions == {".png", ".jpg", ".gif"}

----------------------------------------------------------------------------
(* Filesystem and library helpers *)

\* a path as the operating system resolves it from the working directory d
Resolve(p, d) == IF p.scheme = "" /\ p.dir = "" THEN [p EXCEPT !.dir = d] ELSE p

\* os.path.isfile(p) in state s
isfile(p, s) == Resolve(p, s.cwd) \in s.files

\* os.path.isdir(d) in state s
isdir(d, s) == d \in s.dirs

\* the files inside directory d
FilesIn(d, fs) == {f \in fs : f.dir = d}

Raise(s, e) == [s EXCEPT !.exc = e]

\* tempfile.mkdtemp(prefix='img_'): a fresh directory
mkdtemp(s) ==
    [s EXCEPT !.ndirs = @ + 1,
              !.dirs = @ \cup {DirNames[s.ndirs + 1]},
              !.temp_dir = DirNames[s.ndirs + 1]]

\* dict with key k set to v
Put(d, k, v) == [x \in DOMAIN d \cup {k} |-> IF x = k THEN v ELSE d[x]]

\* common.is_url(url, net_loc): [exc, val]; net_loc {} is the default ''
is_url(url, net_loc, bound) ==
    IF ~bound THEN [exc |-> "NameError", val |-> FALSE]
    ELSE IF net_loc = {} THEN [exc |-> "none", val |-> url.scheme \in VALID_NETLOCS]
    ELSE [exc |-> "none", val |-> url.scheme \in net_loc]

\* common.reverse_lookup(dictionary, value): the keys whose value compares
\* equal; the dict's iteration order decides which of several is returned
reverse_lookup(d, value) == {k \in DOMAIN d : d[k] = value}

----------------------------------------------------------------------------
(* The localizer's methods, as functions of a state record s.  s.exc is the *)
(* exception that ended the call ("none": it returned); s.pick is the key   *)
(* the dict's iteration order yields first among equal candidates.          *)

\* a switch that sets RestoreMode whatever the mode was
switch_mode_Setting(s) == [s EXCEPT !.local_mode = FALSE]

\* ImageLocalizer.switch_mode
switch_mode(s) == [s EXCEPT !.local_mode = ~@]

\* ImageLocalizer.localize_image(img_url, local_filename), check_images False
localize_image(s, img_url, local_filename, net_ok) ==
    IF local_filename = None
    THEN Raise(s, "UnboundLocalError")      \* line 57 reads img_ext, assigned on line 59
    ELSE IF ~net_ok
    THEN Raise([s EXCEPT !.fetches = @ + 1], "URLError")
    ELSE IF img_url.ext \notin ImageExtensions
    THEN Raise([s EXCEPT !.fetches = @ + 1], "AssertionError")
    ELSE IF ~isdir(Resolve(local_filename, s.cwd).dir, s)
    THEN Raise([s EXCEPT !.fetches = @ + 1], "IOError")
    ELSE [s EXCEPT !.fetches = @ + 1,
                   !.files = @ \cup {Resolve(local_filename, s.cwd)},
                   !.created = @ \cup {Resolve(local_filename, s.cwd)}]

\* the net_loc visit_image hands to is_url: none, the default ''
VisitNetLoc == {}

\* visit_image, the branch of self.__local_mode (lines 76-91)
VisitImageLocal(s, i) ==
    LET s1 == IF ~isdir(s.temp_dir, s) THEN mkdtemp(s) ELSE s
        img_url == s1.uri[i]
        u == is_url(img_url, VisitNetLoc, s1.bound)
    IN  IF isfile(img_url, s1) THEN s1
        ELSE IF u.exc # "none" THEN Raise(s1, u.exc)
        ELSE IF ~u.val THEN Raise(s1, "ImageURLError")
        ELSE IF img_url \in DOMAIN s1.localized_images
        THEN Raise(s1, "NameError")         \* line 86 reads temp_local_filename
        ELSE [s1 EXCEPT !.localized_images = Put(@, img_url, BoundMethod)]

\* a restore pass that deletes the file of a node it finds no key for
RestoreNotFound_Deleting(s, i) == [s EXCEPT !.files = @ \ {Resolve(s.uri[i], s.cwd)}]

\* what the except ValueError clause of line 101 does
RestoreNotFound(s, i) == s

\* a restore pass that forgets the map entry of a remote reference it visits
RestoreRemote_Forgetting(s, i) ==
    [s EXCEPT !.localized_images = [k \in DOMAIN @ \ {s.uri[i]} |-> @[k]]]

\* lines 96-97: the restore visit of a url returns at once
RestoreRemote(s, i) == s

\* visit_image, the else branch (lines 93-105)
VisitImageRestore(s, i) ==
    LET img_path == s.uri[i]
        u == is_url(img_path, VisitNetLoc, s.bound)
        found == reverse_lookup(s.localized_images, img_path)
        img_url == IF s.pick \in found THEN s.pick ELSE CHOOSE k \in found : TRUE
        s1 == [s EXCEPT !.uri[i] = img_url]
    IN  IF u.exc # "none" THEN Raise(s, u.exc)   \* line 94 or line 96
        ELSE IF ~isfile(img_path, s) /\ ~u.val THEN Raise(s, "ImageURLError")
        ELSE IF u.val THEN RestoreRemote(s, i)
        ELSE IF found = {} THEN RestoreNotFound(s, i)
        ELSE IF ~s.bound THEN Raise(s1, "NameError")     \* os.remove, os unbound
        ELSE [s1 EXCEPT !.files = @ \ {Resolve(img_path, s.cwd)}]

\* a visit that toggles the mode when it has handled its node
visit_image_Switching(s, i) ==
    LET r == IF s.local_mode THEN VisitImageLocal(s, i) ELSE VisitImageRestore(s, i)
    IN  [r EXCEPT !.local_mode = ~@]

\* ImageLocalizer.visit_image (visit_figure delegates to it)
visit_image(s, i) == IF s.local_mode THEN VisitImageLocal(s, i) ELSE VisitImageRestore(s, i)

RECURSIVE WalkFrom_Continuing(_, _)
\* a traversal that visits the remaining nodes after a visit raised
WalkFrom_Continuing(s, i) ==
    IF i > Len(s.uri) THEN s
    ELSE LET r == visit_image([s EXCEPT !.exc = "none"], i)
         IN  WalkFrom_Continuing(IF s.exc # "none" THEN [r EXCEPT !.exc = s.exc] ELSE r, i + 1)

RECURSIVE WalkFrom(_, _)
\* doctree.walk(self) from node i on: the first exception ends the traversal
WalkFrom(s, i) ==
    IF i > Len(s.uri) THEN s
    ELSE LET r == visit_image(s, i)
         IN  IF r.exc # "none" THEN r ELSE WalkFrom(r, i + 1)

walk(s) == WalkFrom(s, 1)

\* ImageLocalizer.localize_images(doctree)
localize_images(s) ==
    IF ~s.bound THEN Raise(s, "NameError")                  \* line 111, getcwdu
    ELSE IF s.cwd \notin s.dirs THEN Raise(s, "OSError")    \* getcwdu in a removed directory
    ELSE IF s.temp_dir \notin s.dirs THEN Raise(s, "OSError")   \* line 112, chdir
    ELSE LET r == walk([s EXCEPT !.cwd = s.temp_dir])
         IN  IF r.exc # "none" THEN r
             ELSE [r EXCEPT !.cwd = s.cwd]                  \* line 114

\* a removal of the workspace together with the files it holds
RemoveTempDir_Recursive(s) ==
    IF ~s.bound THEN Raise(s, "NameError")
    ELSE [s EXCEPT !.dirs = @ \ {s.temp_dir},
                   !.files = @ \ FilesIn(s.temp_dir, s.files)]

\* lines 120-124 of cleanup_images
RemoveTempDir(s) ==
    IF ~s.bound THEN Raise(s, "NameError")                  \* os.rmdir, os unbound
    ELSE IF s.temp_dir \in s.dirs /\ FilesIn(s.temp_dir, s.files) = {}
    THEN [s EXCEPT !.dirs = @ \ {s.temp_dir}]
    ELSE s                                                  \* OSError, swallowed

\* ImageLocalizer.cleanup_images(doctree, delete_temp_dir)
cleanup_images(s, delete_temp_dir) ==
    LET r == walk(switch_mode(s))
    IN  IF r.exc # "none" THEN r
        ELSE IF delete_temp_dir THEN RemoveTempDir(switch_mode(r))
        ELSE switch_mode(r)

\* ReSTDocument.cleanup_images of rst2a/__init__.py
doc_cleanup_images(s) ==
    LET r == walk(switch_mode(s))
    IN  IF r.exc # "none" THEN r ELSE switch_mode(r)

----------------------------------------------------------------------------
(* State machine *)

EmptyDict == [k \in {} |-> BoundMethod]

\* no conversion made yet; the document holds no settings objects
NoConversion ==
    [op |-> "none", exc |-> "none", ntemp |-> 0, heap |-> EmptyDict,
     handed |-> EmptyDict, called |-> FALSE, ret |-> <<>>,
     created |-> {}, created_dirs |-> {}, pdf_data |-> FALSE, err |-> 0,
     stylesheet |-> "none"]

NoCall ==
    [op |-> "none", exc |-> "none", flag |-> FALSE, uri0 |-> <<>>, mode0 |-> TRUE,
     cycle0 |-> FALSE, fetches |-> 0, created |-> {}]

InitialFiles == {PIC, Resolve(LOGO, HomeDir)}

Trees == UNION {[1..n -> NodeUris] : n \in 0..MaxNodes}

\* ImageLocalizer.__init__(document, check_images=False, local_mode) in a
\* process whose working directory holds pic.png and logo.png
Init ==
    /\ uri \in Trees
    /\ files = InitialFiles
    /\ dirs = {HomeDir, DirNames[1]}
    /\ cwd = HomeDir
    /\ temp_dir = DirNames[1]
    /\ ndirs = 1
    /\ localized_images = EmptyDict
    /\ local_mode = TRUE
    /\ stdlib_bound \in BOOLEAN
    /\ image_files = <<>>
    /\ last = NoCall
    /\ ext_since = FALSE
    /\ cycle_done = FALSE
    /\ conv = NoConversion

\* the state a call starts in
Cur(pick) ==
    [uri |-> uri, files |-> files, dirs |-> dirs, cwd |-> cwd, temp_dir |-> temp_dir,
     localized_images |-> localized_images, local_mode |-> local_mode, ndirs |-> ndirs,
     bound |-> stdlib_bound, exc |-> "none", fetches |-> 0, created |-> {}, pick |-> pick]

\* the key dictionary.items() yields first among the matching ones
Picks == IF DOMAIN localized_images = {} THEN {None} ELSE DOMAIN localized_images

\* the call op(flag) ended in state r
Finish(r, op, flag) ==
    /\ r.ndirs <= MaxDirs
    /\ uri' = r.uri
    /\ files' = r.files
    /\ dirs' = r.dirs
    /\ cwd' = r.cwd
    /\ temp_dir' = r.temp_dir
    /\ localized_images' = r.localized_images
    /\ local_mode' = r.local_mode
    /\ ndirs' = r.ndirs
    /\ last' = [op |-> op, exc |-> r.exc, flag |-> flag, uri0 |-> uri,
                mode0 |-> local_mode, cycle0 |-> cycle_done,
                fetches |-> r.fetches, created |-> r.created]
    /\ ext_since' = FALSE
    /\ cycle_done' = (cycle_done \/ (/\ op = "cleanup_images" /\ flag /\ r.exc = "none"
                                     /\ last.op = "localize_images" /\ last.exc = "none"
                                     /\ last.mode0 /\ local_mode
                                     /\ r.temp_dir \notin r.dirs))
    /\ UNCHANGED <<stdlib_bound, conv, image_files>>

Localize == \E pick \in Picks : Finish(localize_images(Cur(pick)), "localize_images", FALSE)

Cleanup ==
    \E pick \in Picks, delete_temp_dir \in BOOLEAN :
        Finish(cleanup_images(Cur(pick), delete_temp_dir), "cleanup_images", delete_temp_dir)

DocCleanup == \E pick \in Picks : Finish(doc_cleanup_images(Cur(pick)), "doc_cleanup_images", FALSE)

SwitchMode == Finish(switch_mode(Cur(None)), "switch_mode", FALSE)

LocalFilenames ==
    {None, [scheme |-> "", dir |-> temp_dir, name |-> FileName, ext |-> ".png"]}

\* one call of ImageLocalizer.localize_image
LocalizeImageWith(img_url, local_filename, net_ok) ==
    Finish(localize_image(Cur(None), img_url, local_filename, net_ok), "localize_image", FALSE)

LocalizeImage ==
    \E img_url \in FetchUrls, local_filename \in LocalFilenames, net_ok \in BOOLEAN :
        LocalizeImageWith(img_url, local_filename, net_ok)

\* the environment removes a file of a workspace directory
ExternalDelete ==
    \E f \in files :
        /\ f.dir # HomeDir
        /\ files' = files \ {f}
        /\ ext_since' = TRUE
        /\ UNCHANGED <<uri, dirs, cwd, temp_dir, localized_images, local_mode, ndirs,
                       stdlib_bound, last, cycle_done, conv, image_files>>

\* the environment removes the workspace directory with what it holds
ExternalRemoveWorkspace ==
    /\ temp_dir \in dirs
    /\ dirs' = dirs \ {temp_dir}
    /\ files' = files \ FilesIn(temp_dir, files)
    /\ ext_since' = (ext_since \/ FilesIn(temp_dir, files) # {})
    /\ UNCHANGED <<uri, cwd, temp_dir, localized_images, local_mode, ndirs,
                   stdlib_bound, last, cycle_done, conv, image_files>>

Next ==
    \/ Localize
    \/ Cleanup
    \/ DocCleanup
    \/ SwitchMode
    \/ LocalizeImage
    \/ ExternalDelete
    \/ ExternalRemoveWorkspace

Spec == Init /\ [][Next]_vars

----------------------------------------------------------------------------
(* Conversions: rst2a/latex.py, rst2a/pdf.py and the ReSTDocument methods   *)
(* that wrap them.  A stylesheet argument is a record [kind, path]: a       *)
(* string holding the stylesheet text, the filename of a stylesheet file,   *)
(* or a file-like object.  A settings dictionary is a function from option  *)
(* names to values, and the dictionaries live in conv.heap under the name   *)
(* of the variable that refers to them, so that copy() and update() act on  *)
(* objects.                                                                 *)

STYLE == [scheme |-> "", dir |-> HomeDir, name |-> "style", ext |-> ".tex"]

SS_TEXT == [kind |-> "text", path |-> None]
SS_FILENAME == [kind |-> "filename", path |-> STYLE]
SS_FILELIKE == [kind |-> "filelike", path |-> None]

StylesheetArgs == {SS_TEXT, SS_FILENAME, SS_FILELIKE}

\* the string a latex conversion produced
LatexString == [kind |-> "text", path |-> None]

\* names tempfile.mkstemp and the pdf run give to files
TempRoot == "/tmp"
TempNames == <<"tmp1", "tmp2", "tmp3", "tmp4", "tmp5", "tmp6", "tmp7", "tmp8">>

DEFAULT_SETTINGS == [k \in {"output-encoding"} |-> "utf-8"]
DEFAULT_LATEX_OVERRIDES == [k \in {"documentclass"} |-> "article"]

\* dictionaries a caller passes as ReSTDocument(settings=...) and to_latex(settings=...)
DefaultSettingsArgs ==
    {DEFAULT_SETTINGS,
     [k \in {"output-encoding", "documentclass"} |->
         IF k = "documentclass" THEN "report" ELSE "utf-8"]}

SettingsArgs ==
    {DEFAULT_LATEX_OVERRIDES,
     [k \in {"output-encoding", "documentclass"} |->
         IF k = "documentclass" THEN "book" ELSE "latin-1"]}

\* every path the model knows, in the order sorted() gives
PathOrder ==
    <<BoundMethod, PIC, Resolve(LOGO, HomeDir), STYLE>>
    \o [k \in 1..Len(TempNames) |->
           [scheme |-> "", dir |-> TempRoot, name |-> TempNames[k], ext |-> ".tex"]]

\* the attributes an ImageLocalizer instance has (images.py:42-124)
ImageLocalizerAttrs ==
    {"localized_images", "check_images", "temp_dir", "switch_mode", "localize_image",
     "visit_image", "visit_figure", "localize_images", "cleanup_images"}

\* common.is_filelike(handle, mode): [exc, val]
is_filelike(handle, mode) ==
    IF mode = "None"
    THEN [exc |-> "TypeError", val |-> FALSE]   \* line 76: hasattr(handle, None)
    ELSE [exc |-> "none", val |-> handle.kind = "filelike"]

\* tempfile.mkstemp(suffix=suffix, dir=dir): the new file is s.val
mkstemp(s, suffix, dir) ==
    LET f == [scheme |-> "", dir |-> dir, name |-> TempNames[s.ntemp + 1], ext |-> suffix]
    IN  [s EXCEPT !.ntemp = @ + 1, !.files = @ \cup {f}, !.created = @ \cup {f}, !.val = f]

\* common.create_temp_file(filein, suffix=suffix, dir=dir): returns s.val
create_temp_file(s, filein, suffix, dir) ==
    LET s1 == mkstemp(s, suffix, dir)
        fl == is_filelike(filein, "None")
    IN  IF filein.kind \in {"text", "filename"} THEN s1          \* basestring, line 95
        ELSE IF fl.exc # "none" THEN Raise(s1, fl.exc)           \* line 96
        ELSE IF fl.val THEN s1                                   \* stream_cp, line 97
        ELSE IF ~s.bound THEN Raise(s1, "NameError")             \* line 100, remove
        ELSE Raise([s1 EXCEPT !.files = @ \ {s1.val}], "TypeError")

\* copy.copy(ref): a new dictionary under the name new; returns its name in s.val
copy(s, ref, new) == [s EXCEPT !.heap = Put(@, new, s.heap[ref]), !.val = new]

\* dict.update
update(d, other) ==
    [k \in DOMAIN d \cup DOMAIN other |-> IF k \in DOMAIN other THEN other[k] ELSE d[k]]

\* sorted(list(set(values)))
Sorted(S) == SelectSeq(PathOrder, LAMBDA p : p \in S)

\* the stylesheet file is a temporary one when create_temp_file returned
Temporary(s) == [s EXCEPT !.cleanup_stylesheet = (s.exc = "none")]

\* latex.doctree_to_latex, lines 42-45: the stylesheet file the writer is to
\* use is s.val
StylesheetFile(s, stylesheet_url) ==
    IF stylesheet_url.kind = "filename" /\ isfile(stylesheet_url.path, s)
    THEN \* not isfile(...) is false: the right operand of or is evaluated
         IF is_filelike(stylesheet_url, "None").exc # "none"
         THEN Raise(s, is_filelike(stylesheet_url, "None").exc)
         ELSE IF ~is_filelike(stylesheet_url, "None").val
         THEN [s EXCEPT !.val = stylesheet_url.path, !.cleanup_stylesheet = FALSE]
         ELSE Temporary(create_temp_file(s, stylesheet_url, ".tex", TempRoot))
    ELSE Temporary(create_temp_file(s, stylesheet_url, ".tex", TempRoot))

\* latex.doctree_to_latex, lines 51-54, in a state where the writer has returned
TempFileList(s) ==
    IF "values" \notin ImageLocalizerAttrs THEN Raise(s, "AttributeError")   \* line 51
    ELSE IF s.cleanup_stylesheet THEN Raise(s, "NameError")   \* line 53, stylesheet_path
    ELSE [s EXCEPT !.ret = Sorted({s.localized_images[k] : k \in DOMAIN s.localized_images})]

\* latex.doctree_to_latex, lines 49-50: publish_from_doctree is handed
\* conversion_settings
LatexWriter(s, renderer_ok) ==
    IF s.exc # "none" THEN s                                      \* line 48 raised
    ELSE IF ~renderer_ok
    THEN Raise([s EXCEPT !.called = TRUE,
                         !.handed = s.heap["latex.conversion_settings"]], "SystemMessage")
    ELSE TempFileList([s EXCEPT !.called = TRUE,
                                !.handed = s.heap["latex.conversion_settings"]])

\* latex.doctree_to_latex, lines 46-48, the stylesheet file being s.val
LatexSettings(s, settings, renderer_ok) ==
    IF s.exc # "none" THEN s
    ELSE IF ~s.bound THEN Raise(s, "NameError")                   \* line 46, copy
    ELSE LatexWriter(
             localize_images(
                 [copy(s, settings, "latex.conversion_settings")
                      EXCEPT !.heap["latex.conversion_settings"] =
                                 Put(@, "stylesheet-path", s.val)]),
             renderer_ok)

\* latex.doctree_to_latex(doctree, img_localizer, stylesheet_url, settings):
\* settings names the dictionary in s.heap; s.ret is the returned list
doctree_to_latex(s, stylesheet_url, settings, renderer_ok) ==
    LatexSettings(StylesheetFile(s, stylesheet_url), settings, renderer_ok)

\* ReSTDocument.to_latex and to_pdf, the two lines that build conversion_settings
MergeSettings(s) ==
    [s EXCEPT !.heap = Put(@, "conversion_settings",
                           update(s.heap["default_settings"], s.heap["settings"]))]

\* ReSTDocument.to_latex(stylesheet_url, settings)
to_latex(s, stylesheet_url, renderer_ok) ==
    doctree_to_latex(MergeSettings(s), stylesheet_url, "conversion_settings", renderer_ok)

\* directories below another one: the parent and the bare name of each
DirParent == [d \in {"/tmp/rm/a", "/tmp/rm/a/b"} |->
                 IF d = "/tmp/rm/a" THEN "/tmp/rm" ELSE "/tmp/rm/a"]
BaseName == [d \in {"/tmp/rm/a", "/tmp/rm/a/b"} |-> IF d = "/tmp/rm/a" THEN "a" ELSE "b"]

SubDirs(d, ds) == {x \in ds \cap DOMAIN DirParent : DirParent[x] = d}

\* the directory a bare name denotes in working directory cwd
InCwd(name, wd) ==
    IF \E x \in DOMAIN DirParent : DirParent[x] = wd /\ BaseName[x] = name
    THEN CHOOSE x \in DOMAIN DirParent : DirParent[x] = wd /\ BaseName[x] = name
    ELSE "<no such directory>"

\* os.rmdir(d)
rmdir(s, d) ==
    IF d \in s.dirs /\ FilesIn(d, s.files) = {} /\ SubDirs(d, s.dirs) = {}
    THEN [s EXCEPT !.dirs = @ \ {d}]
    ELSE Raise(s, "OSError")

RECURSIVE remove_dir(_, _), RemoveSubDirs(_, _), WalkDir(_, _), WalkSubDirs(_, _, _)

\* common.remove_dir, lines 35-37: remove_dir(sub_dir) for the listed names
RemoveSubDirs(s, subs) ==
    IF subs = {} THEN s
    ELSE LET sub == CHOOSE x \in subs : TRUE
             r == remove_dir(s, InCwd(BaseName[sub], s.cwd))
         IN  IF r.exc # "none" THEN r ELSE RemoveSubDirs(r, subs \ {sub})

\* os.walk descending into the sub-directories it listed under top
WalkSubDirs(s, top, subs) ==
    IF subs = {} THEN s
    ELSE LET sub == CHOOSE x \in subs : TRUE
             r == WalkDir(s, sub)
         IN  IF r.exc # "none" THEN r ELSE WalkSubDirs(r, top, subs \ {sub})

\* common.remove_dir, lines 29-38: the loop over os.walk(top)
WalkDir(s, top) ==
    LET subs == SubDirs(top, s.dirs)
        fs == FilesIn(top, s.files)
        s1 == IF subs = {} /\ fs = {} THEN rmdir(s, top) ELSE s         \* lines 30-31
        s2 == [s1 EXCEPT !.files = @ \ fs]                              \* lines 32-34
        s3 == RemoveSubDirs(s2, subs)                                   \* lines 35-37
        s4 == rmdir(s3, top)                                            \* line 38
    IN  IF top \notin s.dirs THEN s              \* listdir fails: os.walk yields nothing
        ELSE IF s1.exc # "none" THEN s1
        ELSE IF fs # {} /\ ~s.bound THEN Raise(s1, "NameError")         \* line 34, join
        ELSE IF s3.exc # "none" THEN s3
        ELSE IF s4.exc # "none" THEN s4
        ELSE WalkSubDirs(s4, top, subs)

\* common.remove_dir(dirname)
remove_dir(s, dirname) ==
    LET r == WalkDir(s, dirname)
    IN  IF r.exc # "none" THEN r ELSE rmdir(r, dirname)                 \* line 39

\* what pdflatex_installed() meets: the command runs, fails, or does not exist
Installed == {"yes", "fails", "missing"}

PdflatexRuns == 3                       \* pdf.py:66, call_pdflatex_repeat(3, ...)

\* return codes of the three pdflatex runs of a conversion
RunCodes == {<<0, 0, 0>>, <<0, 1, 2>>, <<2, 0, 1>>}

\* pdf.pdflatex_installed(): [exc, val]
pdflatex_installed(installed) ==
    IF installed = "missing" THEN [exc |-> "OSError", val |-> FALSE]   \* not CalledProcessError
    ELSE [exc |-> "none", val |-> installed = "yes"]

\* pdf.call_pdflatex(latex_filename, pdf_dir) with return code code: s.val is
\* the pair (success, return code)
call_pdflatex(s, latex_filename, pdf_dir, code) ==
    IF code = 0
    THEN [s EXCEPT !.files = @ \cup {[latex_filename EXCEPT !.ext = ".pdf"]},
                   !.runs = @ + 1,
                   !.val = <<TRUE, 0>>]
    ELSE [s EXCEPT !.runs = @ + 1, !.val = <<FALSE, code>>]

RECURSIVE call_pdflatex_repeat(_, _, _, _, _)

\* pdf.call_pdflatex_repeat(n, latex_filename, pdf_dir); codes are the return
\* codes the runs still to come would give; s.val is the returned code
call_pdflatex_repeat(s, n, latex_filename, pdf_dir, codes) ==
    IF n = 0 THEN [s EXCEPT !.val = 0]
    ELSE LET r == call_pdflatex(s, latex_filename, pdf_dir, Head(codes))
         IN  IF ~r.val[1] THEN [r EXCEPT !.val = r.val[2]]
             ELSE call_pdflatex_repeat(r, n - 1, latex_filename, pdf_dir, Tail(codes))

\* tempfile.mkdtemp() of pdf.py:63: the new directory is s.val
pdf_mkdtemp(s) ==
    [s EXCEPT !.ndirs = @ + 1,
              !.dirs = @ \cup {DirNames[s.ndirs + 1]},
              !.created_dirs = @ \cup {DirNames[s.ndirs + 1]},
              !.val = DirNames[s.ndirs + 1]]

\* pdf.doctree_to_pdf, lines 74-84, after remove_dir
PdfResult(s, err) ==
    IF s.exc # "none" THEN s
    ELSE IF err = 0 THEN [s EXCEPT !.pdf_data = TRUE]                 \* line 81
    ELSE Raise([s EXCEPT !.err = err], "EnvironmentError")            \* line 84

\* pdf.doctree_to_pdf, lines 72-80, after cleanup_images
PdfRemove(s, extra_files, cleanup_stylesheet, temp_pdf_dir, temp_latex_filename, err) ==
    IF s.exc # "none" THEN s
    ELSE IF cleanup_stylesheet /\ extra_files[1] \notin s.files
    THEN Raise(s, "OSError")                                          \* line 73
    ELSE IF err = 0 /\ [temp_latex_filename EXCEPT !.ext = ".pdf"] \notin s.files
    THEN Raise(s, "IOError")                                          \* line 77
    ELSE PdfResult(
             remove_dir(IF cleanup_stylesheet
                        THEN [s EXCEPT !.files = @ \ {extra_files[1]}] ELSE s,
                        temp_pdf_dir),
             err)

\* pdf.doctree_to_pdf, lines 66-84: s.val is the code call_pdflatex_repeat returned
PdfFinish(s, extra_files, temp_pdf_dir, temp_latex_filename) ==
    PdfRemove(cleanup_images(s, TRUE), extra_files, extra_files[1].ext = ".tex",
              temp_pdf_dir, temp_latex_filename, s.val)

\* pdf.doctree_to_pdf, line 66: s.val is the latex file
PdfRuns(s, extra_files, temp_pdf_dir, codes) ==
    IF s.exc # "none" THEN s
    ELSE PdfFinish(call_pdflatex_repeat(s, PdflatexRuns, s.val, temp_pdf_dir, codes),
                   extra_files, temp_pdf_dir, s.val)

\* pdf.doctree_to_pdf, line 64: s.val is temp_pdf_dir
PdfLatexFile(s, extra_files, codes) ==
    PdfRuns(create_temp_file(s, LatexString, ".tex", s.val), extra_files, s.val, codes)

\* pdf.doctree_to_pdf, lines 61-63: s.ret is extra_files
PdfFromLatex(s, codes) ==
    IF s.exc # "none" THEN s
    ELSE IF s.ret = <<>> THEN Raise(s, "IndexError")                  \* line 61
    ELSE PdfLatexFile(pdf_mkdtemp(s), s.ret, codes)

\* pdf.doctree_to_pdf(doctree, img_localizer, stylesheet_url, settings)
doctree_to_pdf(s, stylesheet_url, settings, renderer_ok, installed, codes) ==
    IF ~s.bound THEN Raise(s, "NameError")                 \* lines 38, 46: getcwdu()
    ELSE IF pdflatex_installed(installed).exc # "none"
    THEN Raise(s, pdflatex_installed(installed).exc)
    ELSE IF ~pdflatex_installed(installed).val
    THEN Raise([s EXCEPT !.err = 127], "EnvironmentError")            \* line 57
    ELSE PdfFromLatex(doctree_to_latex(s, stylesheet_url, settings, renderer_ok), codes)

\* ReSTDocument.to_pdf(stylesheet_url, settings): the merged dictionary is
\* built and the settings argument is passed on
to_pdf(s, stylesheet_url, renderer_ok, installed, codes) ==
    doctree_to_pdf(MergeSettings(s), stylesheet_url, "settings", renderer_ok, installed, codes)

\* the state a conversion starts in: the localizer's, the files mkstemp has
\* made, and the dictionaries default_settings and settings
CurConv(pick, settings) ==
    [uri |-> uri, files |-> files, dirs |-> dirs, cwd |-> cwd, temp_dir |-> temp_dir,
     localized_images |-> localized_images, local_mode |-> local_mode, ndirs |-> ndirs,
     bound |-> stdlib_bound, exc |-> "none", fetches |-> 0, created |-> {}, pick |-> pick,
     ntemp |-> conv.ntemp, heap |-> Put(conv.heap, "settings", settings),
     handed |-> EmptyDict, called |-> FALSE, ret |-> <<>>, created_dirs |-> {},
     val |-> None, cleanup_stylesheet |-> FALSE, pdf_data |-> FALSE, err |-> 0,
     runs |-> 0]

\* the dictionaries that outlive a call
Kept(heap) == [k \in DOMAIN heap \cap {"default_settings", "settings"} |-> heap[k]]

\* the conversion op(stylesheet_url, ...) ended in state r
FinishConv(r, op, stylesheet_url) ==
    /\ r.ndirs <= MaxDirs
    /\ r.ntemp <= MaxTemps
    /\ uri' = r.uri
    /\ files' = r.files
    /\ dirs' = r.dirs
    /\ cwd' = r.cwd
    /\ temp_dir' = r.temp_dir
    /\ localized_images' = r.localized_images
    /\ local_mode' = r.local_mode
    /\ ndirs' = r.ndirs
    /\ conv' = [op |-> op, exc |-> r.exc, ntemp |-> r.ntemp, heap |-> Kept(r.heap),
                handed |-> r.handed, called |-> r.called, ret |-> r.ret,
                created |-> r.created, created_dirs |-> r.created_dirs,
                pdf_data |-> r.pdf_data, err |-> r.err, stylesheet |-> stylesheet_url.kind]
    /\ UNCHANGED <<stdlib_bound, last, ext_since, cycle_done, image_files>>

\* one call of ReSTDocument.to_latex
ToLatexWith(stylesheet_url, settings, renderer_ok) ==
    \E pick \in Picks :
        FinishConv(to_latex(CurConv(pick, settings), stylesheet_url, renderer_ok),
                   "to_latex", stylesheet_url)

ToLatex ==
    \E stylesheet_url \in StylesheetArgs, settings \in SettingsArgs, renderer_ok \in BOOLEAN :
        ToLatexWith(stylesheet_url, settings, renderer_ok)

\* one call of ReSTDocument.to_pdf
ToPdfWith(stylesheet_url, settings, renderer_ok, installed, codes) ==
    \E pick \in Picks :
        FinishConv(to_pdf(CurConv(pick, settings), stylesheet_url, renderer_ok,
                          installed, codes),
                   "to_pdf", stylesheet_url)

ToPdf ==
    \E stylesheet_url \in StylesheetArgs, settings \in SettingsArgs,
       renderer_ok \in BOOLEAN, installed \in Installed, codes \in RunCodes :
        ToPdfWith(stylesheet_url, settings, renderer_ok, installed, codes)

\* ReSTDocument(doc_handle, settings) in a process whose working directory
\* holds pic.png, logo.png and the stylesheet style.tex
InitConv ==
    /\ uri \in Trees
    /\ files = InitialFiles \cup {STYLE}
    /\ dirs = {HomeDir, DirNames[1]}
    /\ cwd = HomeDir
    /\ temp_dir = DirNames[1]
    /\ ndirs = 1
    /\ localized_images = EmptyDict
    /\ local_mode = TRUE
    /\ stdlib_bound \in BOOLEAN
    /\ image_files = <<>>
    /\ last = NoCall
    /\ ext_since = FALSE
    /\ cycle_done = FALSE
    /\ \E settings \in DefaultSettingsArgs :
           conv = [NoConversion EXCEPT !.heap = Put(EmptyDict, "default_settings", settings)]

NextConv ==
    \/ ToLatex
    \/ ToPdf
    \/ DocCleanup

SpecConv == InitConv /\ [][NextConv]_vars

----------------------------------------------------------------------------
(* The helpers of rst2a/common.py called on their own: is_url, stream_cp    *)
(* and remove_dir.  last is the call made and what it gave.                 *)

MaxBytes == 3      \* bytes in a source stream
MaxBlock == 2      \* block_size, and the bytes one read may deliver
MaxRuns == 3       \* the n call_pdflatex_repeat is called with

\* the source streams: the first n bytes of a text
Text == <<"a", "b", "c", "d", "e", "f">>
Sources == {SubSeq(Text, 1, n) : n \in 0..MaxBytes}

\* block_count=None, and the block counts a caller passes
NoCount == -1
BlockCounts == {NoCount, 0, 1, 3}

MAILTO == [scheme |-> "mailto", dir |-> "", name |-> "someone", ext |-> ""]
HTTPS_JPG == [scheme |-> "https", dir |-> "example.org", name |-> "d", ext |-> ".jpg"]

\* strings given to is_url, and allow-lists ({} is the default '')
ClassifierUrls == {A_PNG, B_GIF, NOT_A_URL, PIC, MAILTO, HTTPS_JPG}
NetLocArgs == {{}, {"http"}, {"ftp", "http"}, {"mailto"}}

Min(a, b) == IF a < b THEN a ELSE b

\* input_handle.read(n) at position pos of a source that delivers at most
\* chunk bytes at a time
Read(src, pos, n, chunk) == SubSeq(src, pos + 1, Min(Len(src), pos + Min(n, chunk)))

RECURSIVE CopyLoop_ShortBlockEnds(_, _, _, _)

\* the loop ending at the first block shorter than block_size
CopyLoop_ShortBlockEnds(c, src, chunk, block_size) ==
    IF Len(c.tmp_data) < block_size THEN c
    ELSE CopyLoop_ShortBlockEnds(
             [c EXCEPT !.sink = @ \o c.tmp_data,
                       !.log = @ \o <<[op |-> "write", n |-> Len(c.tmp_data)],
                                      [op |-> "read", n |-> block_size]>>,
                       !.pos = @ + Len(Read(src, c.pos, block_size, chunk)),
                       !.tmp_data = Read(src, c.pos, block_size, chunk)],
             src, chunk, block_size)

RECURSIVE CopyLoop(_, _, _, _)

\* stream_cp, lines 59-61: c.tmp_data is the block read last
CopyLoop(c, src, chunk, block_size) ==
    IF c.tmp_data = <<>> THEN c
    ELSE CopyLoop([c EXCEPT !.sink = @ \o c.tmp_data,
                            !.log = @ \o <<[op |-> "write", n |-> Len(c.tmp_data)],
                                           [op |-> "read", n |-> block_size]>>,
                            !.pos = @ + Len(Read(src, c.pos, block_size, chunk)),
                            !.tmp_data = Read(src, c.pos, block_size, chunk)],
                  src, chunk, block_size)

RECURSIVE CopyBlocks(_, _, _, _, _)

\* stream_cp, lines 63-64: i blocks are still to be copied
CopyBlocks(c, src, chunk, block_size, i) ==
    IF i = 0 THEN c
    ELSE CopyBlocks([c EXCEPT !.sink = @ \o Read(src, c.pos, block_size, chunk),
                              !.log = @ \o <<[op |-> "read", n |-> block_size],
                                             [op |-> "write",
                                              n |-> Len(Read(src, c.pos, block_size, chunk))]>>,
                              !.pos = @ + Len(Read(src, c.pos, block_size, chunk))],
                    src, chunk, block_size, i - 1)

\* common.stream_cp(input_handle, output_handle, block_size, block_count):
\* what was written, and the reads and writes in the order they were made
stream_cp(src, chunk, block_size, block_count) ==
    IF block_count = NoCount
    THEN CopyLoop([sink |-> <<>>, pos |-> Len(Read(src, 0, block_size, chunk)),
                   log |-> <<[op |-> "read", n |-> block_size]>>,
                   tmp_data |-> Read(src, 0, block_size, chunk)],
                  src, chunk, block_size)
    ELSE CopyBlocks([sink |-> <<>>, pos |-> 0, log |-> <<>>, tmp_data |-> <<>>],
                    src, chunk, block_size, block_count)

IsUrl ==
    \E url \in ClassifierUrls, net_loc \in NetLocArgs :
        /\ last' = [op |-> "is_url", url |-> url, net_loc |-> net_loc,
                    exc |-> is_url(url, net_loc, stdlib_bound).exc,
                    val |-> is_url(url, net_loc, stdlib_bound).val]
        /\ UNCHANGED <<uri, files, dirs, cwd, temp_dir, localized_images, local_mode,
                       ndirs, stdlib_bound, ext_since, cycle_done, conv, image_files>>

StreamCp ==
    \E src \in Sources, chunk \in {1, MaxBlock}, block_size \in 1..MaxBlock,
       block_count \in BlockCounts :
        /\ last' = [op |-> "stream_cp", exc |-> "none", src |-> src, chunk |-> chunk,
                    block_size |-> block_size, block_count |-> block_count,
                    sink |-> stream_cp(src, chunk, block_size, block_count).sink,
                    log |-> stream_cp(src, chunk, block_size, block_count).log]
        /\ UNCHANGED <<uri, files, dirs, cwd, temp_dir, localized_images, local_mode,
                       ndirs, stdlib_bound, ext_since, cycle_done, conv, image_files>>

\* the directory tree remove_dir is given, and a file in two of its directories
RmRoot == "/tmp/rm"
RmTrees == {{}, {RmRoot}, {RmRoot, "/tmp/rm/a"}, {RmRoot, "/tmp/rm/a", "/tmp/rm/a/b"}}
RmFiles == {[scheme |-> "", dir |-> RmRoot, name |-> "f", ext |-> ".log"],
            [scheme |-> "", dir |-> "/tmp/rm/a", name |-> "g", ext |-> ".aux"]}

RemoveDir ==
    LET r == remove_dir([files |-> files, dirs |-> dirs, cwd |-> cwd,
                         bound |-> stdlib_bound, exc |-> "none"], RmRoot)
    IN  /\ files' = r.files
        /\ dirs' = r.dirs
        /\ last' = [op |-> "remove_dir", exc |-> r.exc, dirs0 |-> dirs]
        /\ UNCHANGED <<uri, cwd, temp_dir, localized_images, local_mode,
                       ndirs, stdlib_bound, ext_since, cycle_done, conv, image_files>>

\* the LaTeX file call_pdflatex_repeat is given, and the return codes of pdflatex
TexFile == [scheme |-> "", dir |-> HomeDir, name |-> "doc", ext |-> ".tex"]
ReturnCodes == {0, 1, 2}

\* one call of pdf.call_pdflatex_repeat(n, latex_filename, pdf_dir); the
\* default of pdf_dir is evaluated when the def statement is executed
CallPdflatexRepeat ==
    \E n \in 0..MaxRuns :
        \E codes \in [1..n -> ReturnCodes] :
            LET s == [files |-> files, dirs |-> dirs, cwd |-> cwd, bound |-> stdlib_bound,
                      exc |-> "none", val |-> None, runs |-> 0]
                r == IF ~s.bound THEN Raise(s, "NameError")      \* line 46, getcwdu()
                     ELSE call_pdflatex_repeat(s, n, TexFile, HomeDir, codes)
            IN  /\ files' = r.files
                /\ last' = [op |-> "call_pdflatex_repeat", exc |-> r.exc, n |-> n,
                            codes |-> codes, runs |-> r.runs, val |-> r.val]
                /\ UNCHANGED <<uri, dirs, cwd, temp_dir, localized_images, local_mode,
                               ndirs, stdlib_bound, ext_since, cycle_done, conv, image_files>>

\* a process in HomeDir or in RmRoot, with some directory tree under RmRoot
InitCommon ==
    /\ uri = <<>>
    /\ \E t \in RmTrees, fs \in SUBSET RmFiles :
           /\ \A f \in fs : f.dir \in t
           /\ dirs = {HomeDir} \cup t
           /\ files = fs
    /\ cwd \in {HomeDir, RmRoot}
    /\ temp_dir = DirNames[1]
    /\ ndirs = 1
    /\ localized_images = EmptyDict
    /\ local_mode = TRUE
    /\ stdlib_bound \in BOOLEAN
    /\ image_files = <<>>
    /\ last = NoCall
    /\ ext_since = FALSE
    /\ cycle_done = FALSE
    /\ conv = NoConversion

NextCommon ==
    \/ IsUrl
    \/ StreamCp
    \/ RemoveDir

SpecCommon == InitCommon /\ [][NextCommon]_vars

\* pdf.call_pdflatex_repeat called on its own, any number of times
NextRepeat == CallPdflatexRepeat

SpecRepeat == InitCommon /\ [][NextRepeat]_vars

----------------------------------------------------------------------------
(* The standalone module rst2pdf.py: ReSTConversion and an ImageLocalizer   *)
(* of its own, whose list image_files is made in the class body.  conv is   *)
(* the call made last: conv.ret is the list localize_images returned,       *)
(* conv.created the files the call made.                                    *)

MaxMade == 6       \* temporary files the module makes in one process

\* what fetching and parsing an image gives: the image, or the error raised
FetchOutcomes == {"ok", "URLError", "IOError"}

\* the image nodes of the documents converted
DocumentUris == {A_PNG, PIC}
Documents == UNION {[1..n -> DocumentUris] : n \in 0..MaxNodes}

\* rst2pdf.ImageLocalizer.visit_image(node) (visit_figure delegates to it)
rst2pdf_visit_image(s, i, outcome) ==
    LET s1 == mkstemp(s, s.uri[i].ext, TempRoot)
    IN  IF s.uri[i].scheme = "" THEN Raise(s1, "ValueError")   \* urlopen: unknown url type
        ELSE IF outcome # "ok" THEN Raise(s1, outcome)
        ELSE [s1 EXCEPT !.uri[i] = s1.val,
                        !.image_files = Append(@, s1.val)]     \* the list of the class

RECURSIVE rst2pdf_walk(_, _, _)
\* doctree.walk(visitor) from node i on
rst2pdf_walk(s, i, outcome) ==
    IF i > Len(s.uri) THEN s
    ELSE IF rst2pdf_visit_image(s, i, outcome).exc # "none"
    THEN rst2pdf_visit_image(s, i, outcome)
    ELSE rst2pdf_walk(rst2pdf_visit_image(s, i, outcome), i + 1, outcome)

\* rst2pdf.localize_images(doctree): s.ret is the visitor.image_files returned
rst2pdf_localize_images(s, outcome) ==
    LET r == rst2pdf_walk(s, 1, outcome)
    IN  IF r.exc # "none" THEN r ELSE [r EXCEPT !.ret = r.image_files]

\* ReSTConversion.to_latex, the temporary stylesheet file
Rst2pdfStylesheet(s) ==
    LET m == mkstemp(s, ".tex", TempRoot)
    IN  [m EXCEPT !.stylesheet_filename = m.val]

\* ReSTConversion.to_latex(): s.ret is images, s.stylesheet_filename the stylesheet
rst2pdf_to_latex(s, outcome, renderer_ok) ==
    LET r == rst2pdf_localize_images(s, outcome)
    IN  IF r.exc # "none" THEN r
        ELSE IF ~renderer_ok THEN Raise(Rst2pdfStylesheet(r), "SystemMessage")
        ELSE Rst2pdfStylesheet(r)

RECURSIVE RemoveEach(_, _)
\* the loop `for temp_filename in ...: os.remove(temp_filename)` of to_pdf
RemoveEach(s, names) ==
    IF names = <<>> THEN s
    ELSE IF Head(names) \notin s.files THEN Raise(s, "OSError")
    ELSE RemoveEach([s EXCEPT !.files = @ \ {Head(names)}], Tail(names))

\* to_pdf, the runs of pdflatex in the working directory: the first run that
\* succeeds writes the PDF file, and the loop ends at the first failure
Rst2pdfRuns(s, latex_filename, codes) ==
    IF Head(codes) = 0
    THEN [s EXCEPT !.files = @ \cup {[latex_filename EXCEPT !.dir = s.cwd, !.ext = ".pdf"]}]
    ELSE s

\* to_pdf after to_latex: s.val is the pdf_filename returned
Rst2pdfLatexFile(s, codes) ==
    LET m == mkstemp(s, ".tex", TempRoot)
    IN  RemoveEach([Rst2pdfRuns(m, m.val, codes) EXCEPT !.val = [m.val EXCEPT !.ext = ".pdf"]],
                   <<m.val, s.stylesheet_filename>> \o s.ret)

\* ReSTConversion.to_pdf()
rst2pdf_to_pdf(s, outcome, renderer_ok, codes) ==
    LET r == rst2pdf_to_latex(s, outcome, renderer_ok)
    IN  IF r.exc # "none" THEN r ELSE Rst2pdfLatexFile(r, codes)

\* the state a call on the freshly parsed document doc starts in
CurStandalone(doc) ==
    [uri |-> doc, files |-> files, cwd |-> cwd, image_files |-> image_files,
     ntemp |-> conv.ntemp, created |-> {}, exc |-> "none", val |-> None,
     ret |-> <<>>, stylesheet_filename |-> None]

\* the call op ended in state r
FinishStandalone(r, op) ==
    /\ uri' = r.uri
    /\ files' = r.files
    /\ image_files' = r.image_files
    /\ conv' = [NoConversion EXCEPT !.op = op, !.exc = r.exc, !.ntemp = r.ntemp,
                                    !.ret = r.ret, !.created = r.created,
                                    !.pdf_data = (op = "rst2pdf.to_pdf" /\ r.exc = "none")]
    /\ UNCHANGED <<dirs, cwd, temp_dir, localized_images, local_mode, ndirs,
                   stdlib_bound, last, ext_since, cycle_done>>

\* one call of rst2pdf.localize_images on a parsed document
Rst2pdfLocalizeImages ==
    \E doc \in Documents, outcome \in FetchOutcomes :
        /\ conv.ntemp + Len(doc) <= MaxMade
        /\ FinishStandalone(rst2pdf_localize_images(CurStandalone(doc), outcome),
                            "rst2pdf.localize_images")

\* one call of to_pdf on a ReSTConversion made for a document
Rst2pdfToPdf ==
    \E doc \in Documents, outcome \in FetchOutcomes, renderer_ok \in BOOLEAN,
       codes \in RunCodes :
        /\ conv.ntemp + Len(doc) + 2 <= MaxMade
        /\ FinishStandalone(rst2pdf_to_pdf(CurStandalone(doc), outcome, renderer_ok, codes),
                            "rst2pdf.to_pdf")

\* a process that has imported rst2pdf, with no temporary file made yet
InitStandalone ==
    /\ uri = <<>>
    /\ files = {PIC}
    /\ dirs = {HomeDir, TempRoot}
    /\ cwd = HomeDir
    /\ temp_dir = DirNames[1]
    /\ ndirs = 1
    /\ localized_images = EmptyDict
    /\ local_mode = TRUE
    /\ stdlib_bound = TRUE
    /\ last = NoCall
    /\ ext_since = FALSE
    /\ cycle_done = FALSE
    /\ conv = NoConversion
    /\ image_files = <<>>

NextStandalone ==
    \/ Rst2pdfLocalizeImages
    \/ Rst2pdfToPdf

SpecStandalone == InitStandalone /\ [][NextStandalone]_vars

----------------------------------------------------------------------------
(* Claims *)

\* a reference the localizer is to fetch: a network scheme and an image extension
Remote(u) == u.scheme \in VALID_NETLOCS /\ u.ext \in ImageExtensions

AllRemote(t) == Len(t) > 0 /\ \A i \in DOMAIN t : Remote(t[i])

\* two nodes of tree t carry the same remote reference
SharedRemote(t) == \E i, j \in DOMAIN t : i # j /\ t[i] = t[j] /\ Remote(t[i])

IsLocalPath(u) == u.scheme = ""

\* the last call was a localize_images pass made in LocalMode
LocalPass == last.op = "localize_images" /\ last.mode0

\* ... and the localizer is still in LocalMode
AfterLocalPass == LocalPass /\ local_mode

\* C1: for a tree of remote references, localize_images followed by
\* cleanup_images both return, every node's uri is again the string it had
\* before, and no file the two calls wrote exists.
C1_RoundTrip ==
    [][(AfterLocalPass /\ AllRemote(last.uri0) /\ Cleanup)
        => /\ last.exc = "none"
           /\ last'.exc = "none"
           /\ uri' = last.uri0
           /\ (last.created \cup last'.created) \cap files' = {}]_vars

\* C2: when two nodes carry the same remote uri, a localize_images pass
\* returns having fetched once and written one file, and both nodes' uri are
\* the same local path, at which a file exists.
C2_Idempotent ==
    (LocalPass /\ SharedRemote(last.uri0))
        => /\ last.exc = "none"
           /\ last.fetches = 1
           /\ Cardinality(last.created) = 1
           /\ \A i, j \in DOMAIN uri :
                (last.uri0[i] = last.uri0[j] /\ Remote(last.uri0[i]))
                    => uri[i] = uri[j] /\ IsLocalPath(uri[i]) /\ uri[i] \in files

\* C3: after a localize_images pass over a tree in which several nodes carry
\* the same remote uri, cleanup_images completes without error, every node
\* has its original uri again and the file they shared no longer exists.
C3_SharedCleanup ==
    [][(AfterLocalPass /\ SharedRemote(last.uri0) /\ Cleanup)
        => /\ last'.exc = "none"
           /\ \A i \in DOMAIN uri' : uri'[i] = last.uri0[i]
           /\ \A i \in DOMAIN uri : IsLocalPath(uri[i]) => Resolve(uri[i], cwd) \notin files']_vars

\* C4: a node whose uri names an existing local file that localization did
\* not produce keeps its uri over localize_images and over cleanup_images,
\* the file still exists afterwards, and the map gets no entry for it.
C4_LocalPassThrough ==
    [][(Localize \/ Cleanup \/ DocCleanup)
        => \A i \in DOMAIN uri :
              (Resolve(uri[i], cwd) \in InitialFiles \cap files)
                  => /\ uri'[i] = uri[i]
                     /\ Resolve(uri[i], cwd) \in files'
                     /\ uri[i] \notin DOMAIN localized_images'
                     /\ \A k \in DOMAIN localized_images' :
                           k \in DOMAIN localized_images
                           \/ localized_images'[k] # uri[i]]_vars

\* C4 witness: a full cycle has returned over a tree with a local file node
C4_Witness ==
    /\ cycle_done
    /\ last.op = "cleanup_images" /\ last.exc = "none"
    /\ \E i \in DOMAIN uri : uri[i] = PIC /\ PIC \in files /\ PIC \notin DOMAIN localized_images

\* C5: localize_images over a tree with a node whose uri is neither an
\* existing local file nor of a recognized remote scheme fails with
\* ImageURLError, and no file the call wrote exists once it has failed.
C5_InvalidRejected ==
    [][(Localize /\ local_mode /\ \E i \in DOMAIN uri :
                        /\ Resolve(uri[i], cwd) \notin files
                        /\ uri[i].scheme \notin VALID_NETLOCS)
        => /\ last'.exc = "ImageURLError"
           /\ last'.created \cap files' = {}]_vars

\* C6: when a file of the workspace has been deleted from outside between
\* the localize_images pass over a tree of remote references and
\* cleanup_images, cleanup_images completes without raising.
C6_CleanupTolerance ==
    [][(AfterLocalPass /\ AllRemote(last.uri0) /\ ext_since /\ Cleanup)
        => last'.exc = "none"]_vars

\* C7: on every exit path of localize_images, return or exception, the
\* working directory after the call is the one before it.
C7_CwdRestored == [][(Localize /\ local_mode) => cwd' = cwd]_vars

\* C8: a localizer in LocalMode when cleanup_images is called is in LocalMode
\* when the call has finished, by return or by exception.
C8_RestingMode == [][((Cleanup \/ DocCleanup) /\ local_mode) => local_mode']_vars

\* C9: after a complete cycle whose cleanup removed the workspace directory,
\* a second localize_images and cleanup_images over a tree of remote
\* references both return, with the uris restored and no file left.
C9_Reusable ==
    [][(AfterLocalPass /\ last.cycle0 /\ AllRemote(last.uri0) /\ Cleanup)
        => /\ last.exc = "none"
           /\ last'.exc = "none"
           /\ uri' = last.uri0
           /\ FilesIn(temp_dir', files') = {}]_vars

\* the classifier's contract: the schemes an allow-list accepts
Accepts(net_loc, scheme) ==
    IF net_loc = {} THEN scheme \in VALID_NETLOCS ELSE scheme \in net_loc

\* C10: localizing the tree whose single node is ftp://example.org/b.gif
\* succeeds when the localizer's classifier accepts ftp and fails with the
\* invalid-reference error when it does not.
C10_SchemeAllowList ==
    (LocalPass /\ last.uri0 = <<B_GIF>>)
        => last.exc = (IF Accepts(VisitNetLoc, "ftp") THEN "none" ELSE "ImageURLError")


\* C11: cleanup_images called on a localizer in LocalMode does not raise,
\* whatever the restore pass or the workspace removal runs into (stated for
\* the package with its library names bound).
C11_CleanupNeverRaises ==
    [][(Cleanup /\ local_mode /\ stdlib_bound) => last'.exc = "none"]_vars

\* the restore walk of a cleanup_images call started now would complete
RestoreWalkCompletes == walk(switch_mode(Cur(None))).exc = "none"

\* C12: when the restore walk of cleanup_images completes, the call with
\* delete_temp_dir=True returns without raising and has removed the workspace
\* directory if it was there and empty; the call with delete_temp_dir=False
\* removes no directory.
C12_WorkspaceRemoval ==
    [][(Cleanup /\ local_mode /\ RestoreWalkCompletes)
        => /\ last'.flag => /\ last'.exc = "none"
                            /\ FilesIn(temp_dir, files') = {} => temp_dir \notin dirs'
           /\ ~last'.flag => dirs' = dirs]_vars


\* every image node of the tree names an existing file by its absolute path
AllLocalFiles == \A i \in DOMAIN uri : uri[i] = PIC /\ PIC \in files

\* C13: when a to_pdf conversion has finished, by returning or by raising,
\* no file and no directory that conversion created exists any more.
C13_TempsReleased ==
    [][ToPdf => conv'.created \cap files' = {} /\ conv'.created_dirs \cap dirs' = {}]_vars

AllSucceed(codes) == \A i \in DOMAIN codes : codes[i] = 0

FirstFailure(codes) == codes[CHOOSE i \in DOMAIN codes :
                               codes[i] # 0 /\ \A j \in 1..(i - 1) : codes[j] = 0]

\* C14: a to_pdf conversion of a tree of local files with the stylesheet
\* text, the library names bound, pdflatex installed and the writer
\* succeeding, returns PDF data only if the three pdflatex
\* runs succeeded, and when a run fails it raises the error that carries the
\* return code of the first failing run.
C14_FirstFailure ==
    [][\A settings \in SettingsArgs, codes \in RunCodes :
          (AllLocalFiles /\ local_mode /\ stdlib_bound
             /\ ToPdfWith(SS_TEXT, settings, TRUE, "yes", codes))
              => /\ conv'.pdf_data => AllSucceed(codes)
                 /\ ~AllSucceed(codes) => /\ conv'.exc = "EnvironmentError"
                                          /\ conv'.err = FirstFailure(codes)
                                          /\ ~conv'.pdf_data]_vars

\* the temporary stylesheet file a conversion created, as a list
CreatedStylesheet(c) ==
    IF \E f \in c.created : f.ext = ".tex"
    THEN <<CHOOSE f \in c.created : f.ext = ".tex">> ELSE <<>>

\* C15: to_latex over a tree of local files with the stylesheet text, the
\* library names bound and the writer succeeding, returns
\* the list made of the temporary stylesheet file, if one was created,
\* followed by the distinct values of the localizer's map in sorted order,
\* and leaves the map as it was.
C15_TempFileList ==
    [][\A settings \in SettingsArgs :
          (AllLocalFiles /\ local_mode /\ stdlib_bound
             /\ ToLatexWith(SS_TEXT, settings, TRUE))
              => /\ conv'.exc = "none"
                 /\ conv'.ret = CreatedStylesheet(conv')
                                \o Sorted({localized_images[k] : k \in DOMAIN localized_images})
                 /\ localized_images' = localized_images]_vars

\* C16: to_latex over a tree of local files, with the library names bound
\* and the writer succeeding, creates
\* and lists a temporary .tex file when the stylesheet argument is the
\* stylesheet text or a file-like object, and creates and lists none when it
\* is the filename of an existing stylesheet file.
C16_StylesheetKinds ==
    [][\A stylesheet_url \in StylesheetArgs, settings \in SettingsArgs :
          (AllLocalFiles /\ local_mode /\ stdlib_bound
             /\ ToLatexWith(stylesheet_url, settings, TRUE))
              => /\ conv'.exc = "none"
                 /\ stylesheet_url.kind \in {"text", "filelike"}
                        => /\ CreatedStylesheet(conv') # <<>>
                           /\ CreatedStylesheet(conv')[1] \in files'
                           /\ conv'.ret # <<>>
                           /\ conv'.ret[1] = CreatedStylesheet(conv')[1]
                 /\ stylesheet_url.kind = "filename"
                        => /\ conv'.created = {}
                           /\ \A i \in DOMAIN conv'.ret : conv'.ret[i].ext # ".tex"]_vars

\* C17: to_latex with the stylesheet text hands the writer every option of
\* default_settings and of the settings argument, the argument's value where
\* both have the option, and leaves both dictionaries as they were.
C17_SettingsMerge ==
    [][\A settings \in SettingsArgs, renderer_ok \in BOOLEAN :
          (AllLocalFiles /\ local_mode /\ ToLatexWith(SS_TEXT, settings, renderer_ok))
              => /\ conv'.called
                 /\ \A k \in DOMAIN conv.heap["default_settings"] \cup DOMAIN settings :
                        /\ k \in DOMAIN conv'.handed
                        /\ conv'.handed[k] = (IF k \in DOMAIN settings THEN settings[k]
                                              ELSE conv.heap["default_settings"][k])
                 /\ conv'.heap["default_settings"] = conv.heap["default_settings"]
                 /\ conv'.heap["settings"] = settings]_vars


\* C18: is_url(url, net_loc) returns, without raising, whether the scheme of
\* url is in net_loc, or in the default network schemes when no net_loc is given.
C18_Classifier ==
    last.op = "is_url"
        => last.exc = "none" /\ last.val = Accepts(last.net_loc, last.url.scheme)

Reads(log) == {i \in DOMAIN log : log[i].op = "read"}
Writes(log) == {i \in DOMAIN log : log[i].op = "write"}

\* C19: stream_cp asks for block_size bytes in every read and writes what a
\* read gave before it reads again; without block_count the sink receives the
\* bytes of the source in order; with block_count it makes block_count reads
\* and writes, and the sink receives what those reads delivered, in order.
C19_StreamCopy ==
    last.op = "stream_cp"
        => /\ \A i \in Reads(last.log) : last.log[i].n = last.block_size
           /\ \A i \in Reads(last.log) : i < Len(last.log) => last.log[i + 1].op = "write"
           /\ \A i \in Writes(last.log) : i > 1 /\ last.log[i - 1].op = "read"
           /\ last.block_count = NoCount => last.sink = last.src
           /\ last.block_count # NoCount
                  => /\ Cardinality(Reads(last.log)) = last.block_count
                     /\ Cardinality(Writes(last.log)) = last.block_count
                     /\ last.sink = SubSeq(last.src, 1,
                                           Min(Len(last.src),
                                               last.block_count
                                                   * Min(last.block_size, last.chunk)))

\* a source of several blocks, read in short deliveries, has been copied whole
C19_Witness ==
    /\ last.op = "stream_cp"
    /\ last.block_count = NoCount
    /\ Len(last.src) = MaxBytes
    /\ last.block_size = MaxBlock
    /\ last.chunk = 1
    /\ last.sink = last.src
    /\ Cardinality(Writes(last.log)) = MaxBytes

\* C20: remove_dir on an existing directory tree returns without raising and
\* leaves none of the tree's directories and files.
C20_RemoveDir ==
    (last.op = "remove_dir" /\ RmRoot \in last.dirs0)
        => /\ last.exc = "none"
           /\ dirs \cap (DOMAIN DirParent \cup {RmRoot}) = {}
           /\ files \cap RmFiles = {}


\* a reference is_url accepts by default
IsRemoteRef(u) == u.scheme \in VALID_NETLOCS

\* the values of the LocalizationMap
MapValues(d) == {d[k] : k \in DOMAIN d}

\* the workspace exists and the tree holds only remote references that are
\* no keys of the map yet
FirstLocalization ==
    /\ local_mode /\ stdlib_bound
    /\ cwd \in dirs /\ temp_dir \in dirs
    /\ AllRemote(uri)
    /\ \A i \in DOMAIN uri : uri[i] \notin DOMAIN localized_images

\* C21: a LocalMode pass over remote references that are no keys yet (library
\* names bound, workspace present) returns, and every node then carries a
\* local path that is a value of the map and names a file of the workspace.
C21_FirstLocalization ==
    [][(FirstLocalization /\ Localize)
        => /\ last'.exc = "none"
           /\ \A i \in DOMAIN uri' :
                  /\ IsLocalPath(uri'[i])
                  /\ uri'[i] \in MapValues(localized_images')
                  /\ uri'[i] \in FilesIn(temp_dir', files')]_vars

\* C22: every value of the LocalizationMap is a local file path inside the
\* workspace directory, never a callable.
C22_ValuesAreWorkspacePaths ==
    \A k \in DOMAIN localized_images :
        /\ localized_images[k] # BoundMethod
        /\ IsLocalPath(localized_images[k])
        /\ localized_images[k].dir = temp_dir

\* C23: a reference becomes a key of the LocalizationMap only in a call that
\* downloaded it: the call fetched and created a file.
C23_KeysAreDownloads ==
    [][(DOMAIN localized_images' \ DOMAIN localized_images) # {}
        => last'.fetches > 0 /\ last'.created # {}]_vars

\* C24: after a LocalMode pass over remote references and a cleanup_images
\* that both returned, the LocalizationMap is empty.
C24_MapDrained ==
    [][(AfterLocalPass /\ last.exc = "none" /\ AllRemote(last.uri0)
        /\ Cleanup /\ last'.exc = "none")
        => localized_images' = EmptyDict]_vars

C26_RestoreNotLocalized ==
    [][(Cleanup /\ local_mode /\ stdlib_bound /\ Len(uri) > 0
        /\ \A i \in DOMAIN uri :
               IsLocalPath(uri[i]) /\ uri[i] \notin MapValues(localized_images))
        => /\ last'.exc = "none"
           /\ uri' = uri
           /\ files' = files
           /\ localized_images' = localized_images]_vars


\* a call that walks the tree in RestoreMode
RestoreWalk == (Localize /\ ~local_mode) \/ ((Cleanup \/ DocCleanup) /\ local_mode)

\* C27: a restore walk leaves the uri of every node that carries a remote
\* reference as it was, and over a tree of remote references it changes no
\* file and no entry of the map, however often it is repeated.
C27_RestoreRemoteNoOp ==
    [][RestoreWalk
        => /\ \A i \in DOMAIN uri : IsRemoteRef(uri[i]) => uri'[i] = uri[i]
           /\ (\A i \in DOMAIN uri : IsRemoteRef(uri[i]))
                  => files' = files /\ localized_images' = localized_images]_vars

\* a cleanup_images that returned over remote references that are keys
C27_Witness ==
    /\ last.op = "cleanup_images" /\ last.mode0 /\ last.exc = "none"
    /\ ~ext_since
    /\ uri = last.uri0 /\ Len(uri) > 0
    /\ \A i \in DOMAIN uri : IsRemoteRef(uri[i]) /\ uri[i] \in DOMAIN localized_images

\* C28: cleanup_images deletes no file of the workspace except the temporary
\* file of a node it restores, and removes the workspace only when asked to
\* and only when no file is left in it: a remaining file and its directory
\* both exist afterwards.
C28_WorkspaceKept ==
    [][(Cleanup \/ DocCleanup)
        => /\ \A f \in FilesIn(temp_dir, files) :
                  \/ f \in files' /\ temp_dir \in dirs'
                  \/ \E i \in DOMAIN uri : Resolve(uri[i], cwd) = f /\ uri'[i] # uri[i]
           /\ (temp_dir \in dirs /\ temp_dir \notin dirs')
                  => last'.flag /\ FilesIn(temp_dir, files') = {}]_vars

\* cleanup_images(doctree, delete_temp_dir=True) returned and the workspace
\* still holds a file
C28_Witness ==
    /\ last.op = "cleanup_images" /\ last.flag /\ last.exc = "none"
    /\ ~ext_since /\ stdlib_bound
    /\ temp_dir \in dirs
    /\ FilesIn(temp_dir, files) # {}

\* C29: localize_images over remote references while the workspace directory
\* is missing (library names bound) allocates a new workspace and creates the
\* downloaded files inside it.
C29_WorkspaceRecreated ==
    [][(Localize /\ local_mode /\ stdlib_bound /\ cwd \in dirs
        /\ temp_dir \notin dirs /\ AllRemote(uri))
        => /\ last'.exc = "none"
           /\ temp_dir' \in dirs'
           /\ last'.created # {}
           /\ \A f \in last'.created : f.dir = temp_dir' /\ f \in files']_vars

\* the nodes before node i are visited without an error: existing absolute
\* files, or remote references met for the first time
VisitedUpTo(i) ==
    \A j \in 1..(i - 1) :
        \/ uri[j] = PIC /\ PIC \in files
        \/ /\ IsRemoteRef(uri[j])
           /\ uri[j] \notin DOMAIN localized_images
           /\ \A h \in 1..(j - 1) : uri[h] # uri[j]

\* C30: when the LocalMode traversal of localize_images visits a node whose
\* uri is neither an existing file nor a url, ImageURLError reaches the
\* caller, no uri is modified, nothing is fetched, and no reference of a
\* later node is added to the map.
C30_InvalidAborts ==
    [][(Localize /\ local_mode /\ stdlib_bound /\ cwd \in dirs /\ temp_dir \in dirs)
        => \A i \in DOMAIN uri :
               (uri[i] = NOT_A_URL /\ VisitedUpTo(i))
               => /\ last'.exc = "ImageURLError"
                  /\ uri' = uri
                  /\ last'.fetches = 0 /\ files' = files
                  /\ \A k \in DOMAIN localized_images' \ DOMAIN localized_images :
                         \E j \in 1..(i - 1) : uri[j] = k]_vars

\* localize_images was aborted at a first node that is invalid, a remote
\* reference following it
C30_Witness ==
    /\ last.op = "localize_images" /\ last.mode0 /\ last.exc = "ImageURLError"
    /\ ~ext_since /\ stdlib_bound
    /\ Len(uri) >= 2 /\ uri = last.uri0
    /\ uri[1] = NOT_A_URL
    /\ IsRemoteRef(uri[2]) /\ uri[2] \notin DOMAIN localized_images


\* C31: a LocalMode pass over one remote reference that is no key yet
\* attempts its fetch exactly once; the pass returns only when the fetch
\* delivered a file, and a pass that failed leaves the node's uri as it was.
C31_FetchOnce ==
    [][(FirstLocalization /\ Len(uri) = 1 /\ Localize)
        => /\ last'.fetches = 1
           /\ last'.exc = "none" => last'.created # {}
           /\ last'.exc # "none" => uri' = uri]_vars

\* C32: localizing the remote reference c.bmp, whose extension is none of
\* .png, .jpg, .gif, with or without a local file name and the network up,
\* fails with the error of the extension test, and records no entry, changes
\* no uri and leaves no file behind.
C32_ExtensionRejected ==
    [][\A local_filename \in LocalFilenames :
          (temp_dir \in dirs /\ LocalizeImageWith(C_BMP, local_filename, TRUE))
              => /\ last'.exc = "AssertionError"
                 /\ localized_images' = localized_images
                 /\ uri' = uri
                 /\ files' = files]_vars


\* C33: a to_pdf conversion of a tree of local files with the stylesheet
\* text, an empty workspace, the library names bound, pdflatex installed and
\* the writer succeeding goes through its phases in order: the writer is
\* invoked, the pdflatex directory is made and the runs are done, then the
\* restore pass leaves the localizer in LocalMode and the empty workspace is
\* removed, the runs having succeeded or failed.
C33_PdfPhases ==
    [][\A settings \in SettingsArgs, codes \in RunCodes :
          (AllLocalFiles /\ local_mode /\ stdlib_bound
             /\ temp_dir \in dirs /\ FilesIn(temp_dir, files) = {}
             /\ ToPdfWith(SS_TEXT, settings, TRUE, "yes", codes))
              => /\ conv'.called
                 /\ conv'.created_dirs # {}
                 /\ conv'.exc \in {"none", "EnvironmentError"}
                 /\ local_mode'
                 /\ temp_dir \notin dirs']_vars


\* the runs made when the return codes are codes: up to the first failing one
RunsMade(codes) ==
    IF AllSucceed(codes) THEN Len(codes)
    ELSE CHOOSE i \in DOMAIN codes : codes[i] # 0 /\ \A j \in 1..(i - 1) : codes[j] = 0

\* C34: call_pdflatex_repeat(n, ...) returns without raising, having run
\* pdflatex at most n times and not beyond the first failing run; it returns
\* 0 exactly when all n runs succeeded (n = 0: no run) and else the return
\* code of the first failing run.
C34_RepeatStopsAtFailure ==
    last.op = "call_pdflatex_repeat"
        => /\ last.exc = "none"
           /\ last.runs <= last.n
           /\ last.runs = RunsMade(last.codes)
           /\ (last.val = 0) <=> AllSucceed(last.codes)
           /\ ~AllSucceed(last.codes) => last.val = FirstFailure(last.codes)


\* C35: switch_mode turns LocalMode into RestoreMode and RestoreMode into
\* LocalMode, and leaves tree, map, workspace path, files, directories and
\* working directory as they were.
C35_SwitchToggles ==
    [][SwitchMode
        => /\ local_mode' = ~local_mode
           /\ UNCHANGED <<uri, localized_images, temp_dir, files, dirs, cwd>>]_vars

\* a second switch_mode in a row has put a localizer with a non-empty map
\* back into LocalMode
C35_Witness ==
    /\ last.op = "switch_mode" /\ ~last.mode0 /\ local_mode
    /\ DOMAIN localized_images # {}
    /\ Len(uri) > 0

\* what a walk in RestoreMode leaves alone: nothing is fetched, no file is
\* created, no key is added
RestoreFrame ==
    /\ last'.fetches = 0 /\ last'.created = {}
    /\ files' \subseteq files
    /\ DOMAIN localized_images' \subseteq DOMAIN localized_images

\* what a walk in LocalMode leaves alone: no file is deleted, no node gets a
\* remote reference
LocalFrame ==
    /\ files \subseteq files'
    /\ \A i \in DOMAIN uri : uri'[i] # uri[i] => ~IsRemoteRef(uri'[i])

\* the steps of Localize, and those of Cleanup and DocCleanup: last' names the
\* call a step made, so the walk is evaluated on the steps of that call only
LocalizeStep == last'.op = "localize_images" /\ Localize
CleanupStep ==
    /\ last'.op \in {"cleanup_images", "doc_cleanup_images"}
    /\ Cleanup \/ DocCleanup

\* C36: the visits of a walk do not change the mode (localize_images, which
\* only walks, ends in the mode it started in); a walk in RestoreMode fetches
\* nothing, creates no file and adds no key to the map; a walk in LocalMode
\* deletes no file and puts no remote reference into a node.  cleanup_images
\* walks in the mode opposite to the one it is called in.
C36_VisitFrame ==
    [][/\ LocalizeStep => /\ local_mode' = local_mode
                          /\ IF local_mode THEN LocalFrame ELSE RestoreFrame
       /\ CleanupStep => IF local_mode THEN RestoreFrame ELSE LocalFrame]_vars

\* localize_images has walked a tree of remote references in RestoreMode and
\* returned
C36_Witness ==
    /\ last.op = "localize_images" /\ ~last.mode0 /\ last.exc = "none"
    /\ ~ext_since /\ stdlib_bound
    /\ ~local_mode
    /\ uri = last.uri0 /\ AllRemote(uri)

\* C37: the LocalizationMap is injective: two distinct keys never have the
\* same value.
C37_MapInjective ==
    \A k1, k2 \in DOMAIN localized_images :
        k1 # k2 => localized_images[k1] # localized_images[k2]


\* C38: a to_pdf conversion of a tree of local files, the library names
\* bound, pdflatex installed and the writer succeeding, deletes the
\* stylesheet file it created as a temporary file and no other: the
\* caller's existing stylesheet file is still there afterwards; and with an
\* existing stylesheet file and no remote images, the list of temporary
\* files being empty, it ends with the PDF data or with the error of the
\* failed pdflatex runs.
C38_StylesheetCleanup ==
    [][\A stylesheet_url \in StylesheetArgs, settings \in SettingsArgs, codes \in RunCodes :
          (AllLocalFiles /\ local_mode /\ stdlib_bound /\ STYLE \in files
             /\ ToPdfWith(stylesheet_url, settings, TRUE, "yes", codes))
              => /\ STYLE \in files'
                 /\ \A f \in conv'.created : f.ext = ".tex" => f \notin files'
                 /\ stylesheet_url.kind = "filename"
                        => conv'.exc \in {"none", "EnvironmentError"}]_vars


\* C39: the list rst2pdf.localize_images returns for a document holds only
\* files made for that document in this call, whatever calls came before,
\* and a to_pdf that got through its conversion removes every temporary
\* file it made without meeting a file that is already gone.
C39_ImagesOfThisDoctree ==
    [][(Rst2pdfLocalizeImages \/ Rst2pdfToPdf)
        => /\ \A i \in DOMAIN conv'.ret : conv'.ret[i] \in conv'.created
           /\ Rst2pdfToPdf => conv'.exc # "OSError"
           /\ (Rst2pdfToPdf /\ conv'.exc = "none") => conv'.created \cap files' = {}]_vars

====
